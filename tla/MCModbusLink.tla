---------------------------- MODULE MCModbusLink ----------------------------
(* Instances of ModbusLink for TLC: the bit writes the user may ask for.    *)
EXTENDS ModbusLink, TLC

Set(reg, bit) == Job("Bit", reg, bit, TRUE)

WriterSymmetry == Permutations(Writer)

\* two bits of one register
OneRegister  == {Set("A", 0), Set("A", 1)}
\* one bit of each of two registers
TwoRegisters == {Set("A", 1), Set("B", 1)}
=============================================================================
