--------------------------- MODULE MCLedgerClients ---------------------------
(* Two clients and two rows: the smallest ledger with a takeover and an order. *)
EXTENDS LedgerClients, TLC

CONSTANTS c1, c2, nobody

MCActor == {c1, c2}

ClientSymmetry == Permutations(MCActor)

MCReported == {"queued"}

MCStatuses == {"running", "awaiting_approval"}
=============================================================================
