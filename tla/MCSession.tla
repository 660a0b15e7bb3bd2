------------------------------ MODULE MCSession ------------------------------
(***************************************************************************)
(* A small instance of Session.  Local identifier 2 lies between the       *)
(* identifiers 1 and 3 of the OPENs, so collisions are won and lost; the   *)
(* OPENs differ in identifier, Graceful Restart and hold time, and one     *)
(* fails validation (its AS is not the configured one).                    *)
(***************************************************************************)
EXTENDS Session

MCOpen(id, hold, caps, as) ==
  [version |-> 4, bgp_id |-> id, my_as |-> as, four_byte_as |-> None,
   hold_time |-> hold, caps |-> caps, roles |-> {}]

MCOpens ==
  {MCOpen(3, 90, {"GracefulRestart", "RouteRefresh"}, 65002),
   MCOpen(1, 90, {"GracefulRestart"}, 65002),
   MCOpen(3, 0, {}, 65002),
   MCOpen(3, 90, {}, 65009)}
MCCapSets == {{"RouteRefresh"}, {"RouteRefresh", "Restarting"}}
=============================================================================
