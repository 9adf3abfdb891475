---------------------------- MODULE MCClipboard ----------------------------
(* Clipboard under compositors that have everything, or lack one of them.  *)
EXTENDS Clipboard, TLC

MCOffer == {Global} \cup {Global \ {g} : g \in {"shm", "data"}}
Symmetry == Permutations(Client)
MCCapability == {{}, Device}

=============================================================================
