--------------------------------- MODULE Apps ---------------------------------
(***************************************************************************)
(* The checks of applications (watchpost/checks/apps.py): Home Assistant,  *)
(* UniFi Network and Protect, Technitium DNS.  A reply is None when the    *)
(* request failed, was refused, or its body is not JSON.  Texts of Home    *)
(* Assistant have the number they read as, or None.                        *)
(***************************************************************************)
EXTENDS Verdicts

-----------------------------------------------------------------------------
(* Home Assistant *)

\* _entity; an empty `expect' stands for one that is not set.
Entity(m, s) ==
  IF s.state \in {"unavailable", "unknown"} \/ (m.expect # {} /\ s.state \notin m.expect)
  THEN Fail ELSE Ok(s.number)

Unavailable(m, states) ==
  {s \in states : /\ s.state = "unavailable" /\ s.id \notin m.ignore
                  /\ m.domains = {} \/ s.domain \in m.domains}

HomeAssistant(m, r) ==
  IF r = None THEN Fail
  ELSE CASE m.mode = "api"     -> IF r.running THEN Ok(None) ELSE Fail
         [] m.mode = "entity"  -> Entity(m, r)
         [] m.mode = "updates" ->
              Counted(m.th, Cardinality({s \in r : s.domain = "update" /\ s.state = "on"}), "warn")
         [] m.mode = "unavailable" -> Counted(m.th, Cardinality(Unavailable(m, r)), "ok")

-----------------------------------------------------------------------------
(* UniFi: what unifi_list_all returned (module Inventory), for the one site that is   *)
(* meant; None too if that is not clear.                                            *)

\* What a device or a camera should say.
Good(m) == IF m.mode \in {"camera", "cameras"} THEN "CONNECTED" ELSE "ONLINE"

Down(m, devices) == {d \in Range(devices) : d.name \notin m.ignore /\ d.state # Good(m)}

\* _probe of both. A camera that is connecting is a warning if it is asked for alone;
\* what a device says of its load may be missing.
Device(m, d) ==
  IF d = None THEN Fail
  ELSE IF m.mode = "camera" /\ d.state = "CONNECTING" THEN CheckResult("warn", None)
  ELSE IF d.state # Good(m) THEN Fail
  ELSE IF m.mode \in {"device", "camera"} THEN Ok(None)
  ELSE LET load == IF m.mode = "device_cpu" THEN d.cpu ELSE d.mem
       IN  IF load = None THEN Fail ELSE Ok(load)

\* _UniFiCheck.matches: by name or address.
UniFi(m, r) ==
  IF r = None THEN Fail
  ELSE CASE m.mode = "info" -> Ok(None)
         [] m.mode \in {"devices", "cameras"} -> Counted(m.th, Cardinality(Down(m, r)), "fail")
         [] m.mode = "firmware" ->
              Counted(m.th, Cardinality({d \in Range(r) : d.updatable /\ d.name \notin m.ignore}), "warn")
         [] OTHER -> Device(m, FirstOf(r, LAMBDA d : m.device \in {d.name, d.mac}))

-----------------------------------------------------------------------------
(* Technitium *)

Technitium(m, r) ==
  IF r = None \/ r.status # "ok" THEN Fail
  ELSE IF m.mode = "update"
       THEN Counted(m.th, IF r.update THEN 1 ELSE 0, "warn")
       ELSE Ok(OrZero(Pct(OrZero(r.failures), OrZero(r.queries))))
=============================================================================
