---------------------------- MODULE MCAlertPath ----------------------------
(***************************************************************************)
(* A site with a restricted pit and a road to ignore; rules that overlap,  *)
(* that only log, that drop or queue without AI, a weekend rule and one    *)
(* for whole days.                                                         *)
(***************************************************************************)
EXTENDS AlertPath

Pit == [name |-> "pit", type |-> "RESTRICTED"]
Road == [name |-> "road", type |-> "IGNORE"]

NoWeights == [f \in {} |-> 0]
Night == [start |-> 19, end |-> 6, days |-> ALL_DAYS]
WeekendNight == [start |-> 19, end |-> 6, days |-> {4, 5}]

AfterHours ==
    [enabled |-> TRUE, event_types |-> {"person_detected", "vehicle_detected", "video_loss"},
     camera_ids |-> {}, zone_names |-> {}, schedule |-> <<Night>>, min_ai_confidence |-> 0,
     min_severity |-> 0, actions |-> {"push", "snapshot"},
     if_ai_unavailable |-> "ALERT_ON_VENDOR_EVENT", weights |-> NoWeights]
InPit == [AfterHours EXCEPT !.zone_names = {"pit"}, !.schedule = <<>>, !.min_severity = 1]
OnlyLogs == [AfterHours EXCEPT !.min_severity = 4, !.weights = [person |-> 50]]
Weekend ==
    [AfterHours EXCEPT !.schedule = <<WeekendNight>>, !.camera_ids = {"cam1"},
                       !.if_ai_unavailable = "QUEUE_ONLY"]
Sure ==
    [AfterHours EXCEPT !.schedule = <<>>, !.min_ai_confidence = 80, !.if_ai_unavailable = "DROP",
                       !.weights = [person |-> 90]]
\* All of Friday and Saturday.
WholeDays == [AfterHours EXCEPT !.schedule = <<[start |-> 0, end |-> 0, days |-> {4, 5}]>>]

MCRuleRows == {AfterHours, InPit, OnlyLogs, Weekend, Sure, WholeDays}

Verdicts ==
    {[ai_available |-> FALSE, confidence |-> NoConfidence, boxes |-> <<>>]} \cup
    [ai_available : {TRUE}, confidence : {NoConfidence, 50, 90},
     boxes : {<<>>, <<{Pit}>>, <<{Road}>>, <<{Road}, {Pit}>>, <<{Road, Pit}, {}>>}]

Sighting(type, day, hour, ai, camera, silent) ==
    [type |-> type, day |-> day, hour |-> hour, camera |-> camera,
     ai_available |-> ai.ai_available, confidence |-> ai.confidence,
     boxes |-> ai.boxes, device_silent |-> silent, recent_tamper |-> silent]

MCSightings ==
    {Sighting(type, day, hour, ai, camera, FALSE) :
        type \in {"person_detected", "vehicle_detected"}, day \in {4, 5, 6},
        hour \in {5, 6, 12, 19}, ai \in Verdicts, camera \in {"cam1", ""}}
    \cup {Sighting(type, 6, 23, ai, "cam1", TRUE) :
              type \in {"line_crossing", "video_loss"}, ai \in Verdicts}
MCMails == {c \in MCSightings : ~c.ai_available /\ c.camera = "cam1"}

MCPlatform == [ipad |-> "ios", moto |-> "android", pager |-> "none"]
=============================================================================
