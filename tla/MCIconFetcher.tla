---------------------------- MODULE MCIconFetcher ----------------------------
(***************************************************************************)
(* Small instances of IconFetcher for TLC: two rows on the first page and  *)
(* one on the second; "x" has no icon, "a" is asked for on both pages.     *)
(***************************************************************************)
EXTENDS IconFetcher

TwoPages == <<{1, 2}, {3}>>
ThreeIcons == <<<<"x", "a">>, <<"b">>, <<"a">>>>
OneMissing == {"x"}
=============================================================================
