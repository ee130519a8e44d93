------------------------- MODULE MCNativeSubmission -------------------------
(* Two submissions: both native, of one conversation that starts with the  *)
(* first of them and has up to two sessions; or one of them a reply to an  *)
(* adopted conversation.                                                   *)
EXTENDS NativeSubmission

CONSTANTS s1, s2, l1, l2

MCSubmissions == {s1, s2}
MCOne == {s1}
MCSecond == {s2}
MCNative == {l1}
MCLanes == {l1, l2}
MCAdopted == {l2}
MCNone == {}
=============================================================================
