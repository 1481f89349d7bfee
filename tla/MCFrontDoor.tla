------------------------------ MODULE MCFrontDoor ------------------------------
(***************************************************************************)
(* A small instance of FrontDoor for TLC.  A behaviour has one cast: what  *)
(* two requests may ask for, which setters of the mode run, and what goes  *)
(* on beside them.                                                         *)
(***************************************************************************)
EXTENDS FrontDoor

CONSTANTS h1, h2

Cast(ks1, ks2, amounts, ss, ws) ==
    [kinds |-> [h \in Users |-> IF h = h1 THEN ks1 ELSE ks2],
     amounts |-> amounts, setters |-> ss, world |-> ws]

MCCasts == {
    \* deposits race for addresses with each other and the refill task
    Cast({"deposit"}, {"deposit"}, {}, {}, {"refill"}),
    Cast({"deposit"}, {"deposit"}, {}, {}, {"failures"}),
    Cast({"deposit"}, {}, {}, {}, {"refill", "failures"}),
    \* and for a place under the limits
    Cast({"deposit"}, {"deposit"}, {}, {}, {"sessions"}),
    Cast({"deposit"}, {"deposit"}, {}, {}, {"deposits"}),
    Cast({"deposit"}, {"deposit"}, {}, {}, {"watcher"}),
    Cast({"deposit"}, {}, {}, {}, {"deposits", "watcher"}),
    Cast({"deposit"}, {}, {}, {}, {"sessions", "watcher"}),
    \* withdrawals race for the float with each other and with payouts
    Cast({"withdrawal"}, {"withdrawal"}, {1, 2}, {}, {"payouts"}),
    Cast({"withdrawal"}, {}, {1, 2}, {}, {"payouts", "interventions"}),
    Cast({"withdrawal"}, {}, {1}, {}, {"payouts", "restart"}),
    \* the mode changes under a request, which may raise alerts
    Cast({"deposit"}, {}, {}, Operators \cup {Monitor}, {"restart"}),
    Cast({"withdrawal"}, {}, {2}, Operators \cup Escalations, {}),
    Cast({"withdrawal"}, {}, {2}, Escalations, {"events"}),
    \* a session is deleted or revived under a request
    Cast({"deposit"}, {"resume"}, {}, {}, {"sessions"}),
    Cast({"withdrawal"}, {"resume"}, {2}, {}, {"sessions"}),
    Cast({"support"}, {"support", "start", "resume"}, {}, {}, {"sessions", "events"})}

MCIds == 1..4
================================================================================
