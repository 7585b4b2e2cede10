--------------------------- MODULE BrowserHolder ---------------------------
(***************************************************************************)
(* What a CBrowserClient promises to the control that owns it, free of     *)
(* identifiers, locks and threads: of the browsers CEF has announced to a  *)
(* client and not yet ended, the client holds one whenever the announced   *)
(* one it already holds is still there, the first announcement to an       *)
(* empty client is the one it takes, and the end of the browser it holds   *)
(* empties it.                                                             *)
(***************************************************************************)
CONSTANTS Client, Browser, None  \* None is not a browser

VARIABLES
  announced,  \* [Client -> set of browsers between OnAfterCreated and the end of OnBeforeClose]
  held        \* [Client -> the browser the client hands out, or None]

vars == <<announced, held>>

Init ==
  /\ announced = [k \in Client |-> {}]
  /\ held = [k \in Client |-> None]

(* A browser becomes usable: an empty client takes it, a full one ignores it. *)
Announce(k, b) ==
  /\ b \notin announced[k]
  /\ announced' = [announced EXCEPT ![k] = @ \cup {b}]
  /\ held' = [held EXCEPT ![k] = IF @ = None THEN b ELSE @]

(* A browser ends: the client forgets it if it was the one held. *)
End(k, b) ==
  /\ b \in announced[k]
  /\ announced' = [announced EXCEPT ![k] = @ \ {b}]
  /\ held' = [held EXCEPT ![k] = IF @ = b THEN None ELSE @]

Next == \E k \in Client, b \in Browser : Announce(k, b) \/ End(k, b)

Spec == Init /\ [][Next]_vars
=============================================================================
