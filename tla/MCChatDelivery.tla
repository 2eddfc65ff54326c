--------------------------- MODULE MCChatDelivery ---------------------------
(* Small instances of ChatDelivery for TLC. *)
EXTENDS ChatDelivery

CONSTANTS m1, m2, d

OneMessage  == {m1}
TwoMessages == {m1, m2}
OneDraft    == {d}
None        == {}

=============================================================================
