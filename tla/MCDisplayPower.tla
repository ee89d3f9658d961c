--------------------------- MODULE MCDisplayPower ---------------------------
(* Display power with every call of the guest, or with one alone. *)
EXTENDS DisplayPower
NoOthers   == {}
OneOther   == {"automation"}
Service    == {"service"}
All        == {"sleep", "service", "activity"}
=============================================================================
