------------------------------ MODULE MCSha256 ------------------------------
EXTENDS Sha256

\* Arrays of different bytes.
MCInputs == {[i \in 1 .. n |-> i] : n \in {0, 1, 2, 4, 5, 9}}
MCByte == 0 .. 255
MCEncoded(n) == [i \in 1 .. LengthBytes |-> (n \div 256 ^ (LengthBytes - i)) % 256]
=============================================================================
