----------------------------- MODULE MCInbound -----------------------------
(***************************************************************************)
(* Small instances of the inbound path for TLC: two phones, three good     *)
(* messages, one without a readable timestamp and one that no envelope     *)
(* accepts.                                                                *)
(***************************************************************************)
EXTENDS Inbound, TLC

CONSTANTS ana, bia, a1, a2, b1, undated, refused

TheSenders == (a1 :> ana) @@ (a2 :> ana) @@ (b1 :> bia)
              @@ (undated :> ana) @@ (refused :> bia)
TheTimes   == (a1 :> 1) @@ (a2 :> 2) @@ (b1 :> 1)
              @@ (undated :> 3) @@ (refused :> 2)

Single == {<<a1>>}
Pair   == {<<a1, a2>>}
Mixed  == {<<a1, undated>>, <<a2, refused>>}

AnyStep    == Steps \ {"wait"}
=============================================================================
