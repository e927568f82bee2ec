---------------------------- MODULE MCPrefixCache ----------------------------
(***************************************************************************)
(* A small instance of PrefixCache: the prompt of u2 extends that of u1,   *)
(* u3 shares their first page; a prompt and its output end inside a page.  *)
(* u1 and u2 have the same image twice, u3 has one as long as a pass.       *)
(***************************************************************************)
EXTENDS PrefixCache, TLC

CONSTANTS u1, u2, u3, a, b, img, pic

MCUids == {u1, u2, u3}
MCTokens == {a, b}
MCPrompt == u1 :> <<a, a, a, a>> @@ u2 :> <<a, a, a, a, a>> @@ u3 :> <<a, a, b, b, b>>
MCOutputLen == u1 :> 2 @@ u2 :> 3 @@ u3 :> 5
MCItems ==
    LET Image(h, lo, hi) == [hash |-> h, spans |-> {<<lo, hi>>}]
        twice == {Image(img, 1, 2), Image(img, 3, 4)}
    IN u1 :> twice @@ u2 :> twice @@ u3 :> {Image(pic, 2, 5)}
MCSampled == u1 :> {a} @@ u2 :> {a, b} @@ u3 :> {b}
===============================================================================
