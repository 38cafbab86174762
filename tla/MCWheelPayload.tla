---------------------------- MODULE MCWheelPayload ----------------------------
(* Small instances of WheelPayload for TLC. *)
EXTENDS WheelPayload, TLC

CONSTANTS r1, r2

\* Two of the four kinds of files; of each, one may be old and one new.
TwoMembers == <<"dll", "sys">>

\* One architecture at a time, or both in either order.
SomeRequests == {<<"amd64">>, <<"x86">>, <<"amd64", "x86">>}

\* No action or property tells releases apart.
Symmetric == Permutations(Releases)
=============================================================================
