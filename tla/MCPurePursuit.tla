---------------------------- MODULE MCPurePursuit ----------------------------
(***************************************************************************)
(* Small paths for PurePursuit: one that turns (auto1.path) and one that   *)
(* comes back to where it began (auto2.path and square.path do).  All have *)
(* extra points beyond the last actual point.                              *)
(***************************************************************************)
EXTENDS PurePursuit, TLC

CornerPath == << <<0, 0>>, <<0, 1>>, <<0, 2>>, <<0, 3>>, <<0, 4>>,
                 <<1, 4>>, <<2, 4>>, <<3, 4>>, <<4, 4>>, <<5, 4>>,
                 <<6, 4>>, <<7, 4>>, <<8, 4>>, <<9, 4>> >>
CornerField == (-1 .. 9) \X (-1 .. 5)
ReverseCornerField == (-9 .. 1) \X (-5 .. 1)

LoopPath == << <<0, 0>>, <<0, 1>>, <<0, 2>>, <<0, 3>>, <<1, 3>>,
               <<1, 2>>, <<1, 1>>, <<1, 0>>,
               <<1, -1>>, <<1, -2>>, <<1, -3>>, <<1, -4>> >>
LoopField == (-1 .. 2) \X (-2 .. 4)

TwoTriggers == (5 :> "intakeStop") @@ (9 :> "shoot")
ThreeTriggers == (0 :> "intakeStart") @@ (3 :> "intakeStop") @@ (5 :> "shoot")
AllFuncs == {"intakeStart", "intakeStop", "shoot"}
EveryFunc == {AllFuncs}
SomeFuncs == {AllFuncs, {"intakeStart", "shoot"}, {"intakeStart", "intakeStop"}}
==============================================================================
