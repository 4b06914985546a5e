---------------------------- MODULE MCLuciRuntime ----------------------------
(* Three polled functions: f1 throws, f3 removes itself, and f2, due every   *)
(* other second, can be removed and added again while a call is under way:   *)
(* its second call is a page request, the others are ubus calls.             *)
EXTENDS LuciRuntime, TLC
CONSTANTS f1, f2, f3
MCInterval == f1 :> 1 @@ f2 :> 2 @@ f3 :> 1
MCInvocations == {<<f2, 1>>, <<f2, 2>>, <<f3, 1>>}
MCPlain == {<<f2, 2>>}
=============================================================================
