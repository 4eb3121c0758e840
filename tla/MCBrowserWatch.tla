--------------------------- MODULE MCBrowserWatch ---------------------------
(* Small instances of BrowserWatch for TLC. *)
EXTENDS BrowserWatch, TLC

CONSTANTS a, d1, d2, p1, p2, i1, i2

Swaps == Permutations({i1, i2})
=============================================================================
