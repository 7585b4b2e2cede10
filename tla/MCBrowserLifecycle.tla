------------------------ MODULE MCBrowserLifecycle ------------------------
(* TLC's instances of BrowserLifecycle: the clients and the browsers are    *)
(* interchangeable as long as no liveness property is checked.              *)
EXTENDS BrowserLifecycle, TLC

Symmetric == Permutations(Client) \cup Permutations(Browser)
=============================================================================
