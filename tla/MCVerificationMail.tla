------------------------- MODULE MCVerificationMail -------------------------
EXTENDS VerificationMail, TLC

CONSTANTS b1, b2, m1, p1, m2, w1, w2

OneBox == [a \in {m1, p1} |-> b1]
TwoBoxes == [a \in {m1, p1, m2} |-> IF a = m2 THEN b2 ELSE b1]

AnyApi == [Boxes -> {"graph", "imap", "temp"}]
ImapOnly == [Boxes -> {"imap"}]

WorkerSymmetry == Permutations({w1, w2})
=============================================================================
