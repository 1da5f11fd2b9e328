------------------------------ MODULE MCVideo -------------------------------
EXTENDS Video

CONSTANTS SenderReturns, RecipientReturns

MCReturns == [p \in Players |-> IF p = "sender" THEN SenderReturns ELSE RecipientReturns]
=============================================================================
