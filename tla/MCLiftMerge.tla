---------------------------- MODULE MCLiftMerge -----------------------------
(* Two entries: one with a form, a recording, a sense with its part of     *)
(* speech and a gloss, and a field of checks; the other with a form.       *)
EXTENDS LiftMerge, TLC

CONSTANTS phone, tablet

TextOf(x) == Elem("text", "", {<<"text", x>>}, <<>>)
Form(lang, x) == Elem("form", lang, {}, <<TextOf(x)>>)
Gloss(lang, x) == Elem("gloss", lang, {}, <<TextOf(x)>>)
Codes(codes) == Elem("form", "codes", {}, <<Elem("text", "", codes, <<>>)>>)

MCInitial ==
    <<Elem("entry", "g1", {},
           <<Elem("lexical-unit", "", {}, <<Form("en", "x0"), Form("audio", "a0")>>),
             Elem("sense", "s1", {<<"order", "1">>},
                  <<Elem("grammatical-info", "", {<<"value", "noun">>}, <<>>), Gloss("fr", "z0")>>),
             Elem("field", "verification", {}, <<Codes({<<"V1", "a">>})>>)>>),
      Elem("entry", "g2", {}, <<Elem("lexical-unit", "", {}, <<Form("en", "y0")>>)>>)>>

(* One pair stands for all that an edit replaces.                          *)
MCValues(e) ==
    CASE e.val = {} -> {}
      [] e.val \subseteq {<<"text", "x0">>, <<"text", "x1">>, <<"text", "x2">>} /\ e.val # {} ->
             {{<<"text", "x1">>}, {<<"text", "x2">>}}
      [] e.val = {<<"text", "a0">>} -> {{<<"text", "a1">>}, {<<"text", "a2">>}}
      [] e.val = {<<"value", "noun">>} -> {{<<"value", "verb">>}, {<<"value", "adj">>}}
      [] e.val = {<<"order", "1">>} -> {{<<"order", "2">>}}
      [] e.val = {<<"text", "z0">>} -> {{<<"text", "z1">>}}
      [] e.val = {<<"V1", "a">>} -> {{<<"V1", "b">>}, {<<"V1", "a">>, <<"V2", "c">>}}
      [] OTHER -> {}

MCAddable(e) == IF e.tag = "lexical-unit" THEN {Form("es", "w0")} ELSE {}

MCNewEntries == {Elem("entry", "g3", {}, <<Elem("lexical-unit", "", {}, <<Form("en", "v0")>>)>>)}

Symmetry == Permutations(Devices)

MCTheirs(guid) == guid \o "-theirs"

MCRecency(val) ==
    CASE val = {<<"text", "a0">>} -> 0
      [] val = {<<"text", "a1">>} -> 1
      [] val = {<<"text", "a2">>} -> 2
=============================================================================
