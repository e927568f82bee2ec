----------------------------- MODULE MCSwaCache -----------------------------
(***************************************************************************)
(* Instances of SwaCache.  In the first, prompts that share a head go on   *)
(* for at least a window after it; in the second, one prompt is the head   *)
(* of another and one token.                                               *)
(***************************************************************************)
EXTENDS SwaCache

MCUids == {"a", "b", "c", "d"}
ShortUids == {"a", "b", "c"}
MCText == "a" :> <<1, 1, 1, 1, 1, 1, 2, 2, 2>> @@ "b" :> <<1, 1, 1, 1, 3, 3, 4, 4>>
            @@ "c" :> <<1, 1, 1, 1, 1, 1, 2, 2, 5, 6>> @@ "d" :> <<1, 1, 1, 1, 1, 1, 7>>
MCPromptLen == "a" :> 6 @@ "b" :> 6 @@ "c" :> 9 @@ "d" :> 6

ShortText == "a" :> <<1, 1, 1, 1, 1, 2, 2>> @@ "b" :> <<1, 1, 3, 4, 4>>
               @@ "c" :> <<6, 6, 6, 6, 7>>
ShortPromptLen == "a" :> 5 @@ "b" :> 3 @@ "c" :> 4
=============================================================================
