---------------------------- MODULE MCWordCount -----------------------------
(* All texts of up to MaxLength characters, each with the capability the page *)
(* asks for, with some that differ from it in a single measurement, and with  *)
(* one for a picture of as many bytes. The letter is one outside the BMP, the *)
(* apostrophe the typographic one.                                            *)
EXTENDS WordCount, TLC
CONSTANT MaxLength
MCTexts == UNION {[1 .. n -> Letters \cup Others] : n \in 0 .. MaxLength}
MCUtf8 == "letter" :> 4 @@ "apostrophe" :> 3 @@ "space" :> 1 @@ "surrogate" :> 3
MCSigned ==
    [t \in MCTexts |->
        LET m == Measured(t) IN
        {m, [m EXCEPT !.words = @ + 1], [m EXCEPT !.characters = @ + 1],
         [m EXCEPT !.inputBytes = @ + 1],
         [m EXCEPT !.assetKind = "IMAGE", !.words = 0, !.characters = 0]}
        \cup (IF m.words > 0 THEN {[m EXCEPT !.words = @ - 1]} ELSE {})]
=============================================================================
