------------------------- MODULE MCContentLifecycle -------------------------
(* Bounds of ContentLifecycle for TLC: one item, alone. *)
EXTENDS ContentLifecycle, TLC

CONSTANTS c1, page, person

AllModes == {"LIVE", "DRAFT", "DEMO"}
OneItem == {c1}
AllAccounts == {page, person}
ByHandOnly == {person}
FirstSlot == {1}
=============================================================================
