------------------------------- MODULE MCChecks -------------------------------
(* The checks, each on its own: one that remembers, one that does not, one that reads *)
(* a list in pages, and the forecast of what one measured; all bounded.             *)
EXTENDS MCReplies, Checks, Inventory, Forecast

CONSTANTS lan, wan       \* interfaces
CONSTANT MaxPolls        \* bound: polls of a check that remembers one reading
CONSTANT MaxMeasures     \* bound: polls of an interface, whose replies take time
CONSTANT MaxOtherPolls   \* bound: polls of any other check
CONSTANT MaxClock        \* bound: time
CONSTANT MaxMeasuring    \* bound: time while an interface is measured
CONSTANT MaxStarts       \* bound: restarts
CONSTANT MaxDevices      \* bound: devices in the list at a time
CONSTANT MaxSlips        \* bound: devices forgotten before the page edge in one poll
CONSTANT MaxNow          \* bound: time of the history
CONSTANT MaxRows         \* bound: results in the store

VARIABLE part            \* the part of the instance a behaviour is of

allVars == <<part, checkVars, replyVars, inventoryVars, forecastVars>>

\* Thresholds of the forecast: mild ones first, either way, or only a critical one.
SomeLimits ==
  {None, Thresholds("above", 2, 3), Thresholds("below", 2, 1), Thresholds("above", None, 3)}

\* The part of a device that no check reads in this mode stays as it is; an interface
\* that is not watched stays up and, while time passes, carries all it can.
Relevant(before, after) ==
  /\ mode \notin OfInterface =>
       /\ after.index = before.index
       /\ after.octets = [i \in Interfaces |-> 0] /\ after.linked = Interfaces
  /\ mode # "container" => after.count = 0
  /\ Interfaces \ {Watched} \subseteq after.linked
  /\ clock' # clock /\ mode \in OfInterface =>
       \A i \in Interfaces \ {Watched} : after.octets[i] = before.octets[i] + Speed

\* All interfaces are there until the first restart.
Numbered == CHOOSE f \in Numberings : f[Watched] = Given /\ \A i \in Interfaces : f[i] # None

Remembering ==
  \/ mode = "other" /\ Len(history) < MaxOtherPolls /\ Probe
  \/ mode # "other" /\ CheckNext
     /\ device'.starts <= MaxStarts /\ Relevant(device, device')
     /\ IF mode \in OfInterface THEN Len(history') <= MaxMeasures /\ clock' <= MaxMeasuring
        ELSE Len(history') <= MaxPolls /\ clock' <= MaxClock

Listing == InventoryNext /\ Len(devices') <= MaxDevices /\ slips' <= MaxSlips

\* At most one poll in a unit of time, and one forecast of what they left.
Forecasting ==
  /\ ForecastNext
  /\ forecast = None /\ now' <= MaxNow /\ Len(rows') <= MaxRows
  /\ \A i, j \in DOMAIN rows' : rows'[i].at = rows'[j].at => i = j

\* The parts that a behaviour leaves alone.
RestMemory ==
  /\ Init /\ mode = None /\ clock = 0 /\ device = NewDevice([i \in Interfaces |-> None])
  /\ memory = NoMemory /\ awaited = Silence
  /\ report = None /\ seen = None /\ sampled = None /\ warnings = 0
RestReplies == probed = None /\ reply = None /\ judged = Fail
RestInventory == InventoryInit /\ style = "array"
RestForecast == now = 0 /\ rows = <<>> /\ limits = None /\ forecast = None

MCInit ==
  \/ /\ part = "memory" /\ RestReplies /\ RestInventory /\ RestForecast
     /\ CheckInit /\ device.index = IF mode \in OfInterface THEN Numbered
                                     ELSE [i \in Interfaces |-> None]
  \/ part = "replies"   /\ RestMemory /\ RestInventory /\ RestForecast /\ RepliesInit
  \/ part = "inventory" /\ RestMemory /\ RestReplies /\ RestForecast /\ InventoryInit
  \/ part = "forecast"  /\ RestMemory /\ RestReplies /\ RestInventory /\ ForecastInit

MCNext ==
  \/ part = "memory"    /\ Remembering /\ UNCHANGED <<part, replyVars, inventoryVars, forecastVars>>
  \/ part = "replies"   /\ Run /\ UNCHANGED <<part, checkVars, inventoryVars, forecastVars>>
  \/ part = "inventory" /\ Listing /\ UNCHANGED <<part, checkVars, replyVars, forecastVars>>
  \/ part = "forecast"  /\ Forecasting /\ UNCHANGED <<part, checkVars, replyVars, inventoryVars>>

MCSpec == MCInit /\ [][MCNext]_allVars

\* The forecast alone.
MCForecastInit ==
  part = "forecast" /\ RestMemory /\ RestReplies /\ RestInventory /\ ForecastInit

MCForecastSpec == MCForecastInit /\ [][MCNext]_allVars
=============================================================================
