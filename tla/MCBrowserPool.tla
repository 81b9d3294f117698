--------------------------- MODULE MCBrowserPool ----------------------------
(* The instance of BrowserPool that TLC checks. *)
EXTENDS BrowserPool, TLC

Symmetry == Permutations(Browser)
=============================================================================
