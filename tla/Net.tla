---------------------------------- MODULE Net ----------------------------------
(***************************************************************************)
(* The checks of the network (watchpost/checks/net.py,                     *)
(* watchpost/checks/mqtt.py): what each makes of what came back.  `m' is   *)
(* the monitor, `r' the reply, None if none came in time or it was         *)
(* refused; texts are "expected" or "other", by what the monitor expects.  *)
(***************************************************************************)
EXTENDS Verdicts

Ping(m, r) ==
  IF r = None \/ r.received = 0 THEN Fail
  ELSE CheckResult(IF r.received < m.count THEN "warn" ELSE "ok", r.rtt)

\* One read of at most 4096 bytes decides: the banner is what had arrived by then.
Tcp(m, r) ==
  IF \/ r = None
     \/ (m.send \/ m.expect) /\ r.banner = "broken"
     \/ m.expect /\ r.banner # "expected"
  THEN Fail ELSE Ok(r.ms)

Http(m, r) ==
  IF r = None \/ r.status \notin m.expect_status \/ (m.expect_text /\ r.text # "expected")
  THEN Fail ELSE Ok(r.ms)

\* Every value that is listed must be among the answers.
Dns(m, r) == IF r = None \/ ~ m.expect \subseteq r.answers THEN Fail ELSE Ok(r.ms)

Expired(days) == days <= 0

TlsCert(m, r) ==
  IF r = None \/ (m.verify /\ ~ r.valid) THEN Fail
  ELSE CheckResult(IF Expired(r.days) THEN "fail" ELSE "ok", r.days)

\* TlsCertCheck.thresholds: these when none are configured.
DefaultThresholds == Thresholds("below", 21, 7)

\* Without a topic connecting is enough; otherwise the first message decides, and a
\* number is its own value. None: no message in time.
Mqtt(m, r) ==
  CASE r = None -> Fail
    [] r # None /\ ~ m.topic -> Ok(None)
    [] OTHER ->
         IF \/ r.message = None
            \/ m.expect /\ r.text # "expected"
            \/ m.numeric /\ r.number = None
         THEN Fail ELSE Ok(IF m.numeric THEN r.number ELSE None)
=============================================================================
