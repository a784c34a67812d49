------------------------------ MODULE NodeVar ------------------------------
(***************************************************************************)
(* The arithmetic of Server::AlterNodes, in the widths the code computes   *)
(* in: the difference of the rates is an int, its product with the int8_t  *)
(* multiplier is converted to uint64_t by the division by the uint64_t     *)
(* BYTEFLOW_UPDATE_STEP, and the quotient is cut to an int16_t.            *)
(*                                                                         *)
(* Rates are below 2^31, where the subtraction and the cast to int are     *)
(* exact.                                                                  *)
(***************************************************************************)
EXTENDS Integers

CONSTANTS
    Variation,  \* BYTEFLOW_UPDATE_VARIATION, a uint16_t
    Step        \* BYTEFLOW_UPDATE_STEP, a uint64_t

ASSUME RegulatorConfiguration ==
    /\ Variation \in Nat
    /\ Step \in Nat \ {0}

\* 2^48 modulo m, as the square of 2^24
TwoTo48Mod(m) == ((16777216 % m) * (16777216 % m)) % m

\* 2^64 modulo 2^16 * m
TwoTo64Mod(m) == 65536 * TwoTo48Mod(m)

\* int16_t
Int16 == -32768 .. 32767

Distance(a, b) == IF a > b THEN a - b ELSE b - a

(***************************************************************************)
(* enum Alter_Type.                                                        *)
(***************************************************************************)
GROW == 1
SHRINK == -1

(***************************************************************************)
(* The low 16 bits of uint64_t(n) / Step: for n below zero the dividend is *)
(* 2^64 + n, whose quotient is that of 2^64 plus that of n and of the      *)
(* remainder of 2^64.                                                      *)
(***************************************************************************)
QuotientLow16(n) ==
    IF n >= 0 THEN (n \div Step) % 65536
    ELSE (TwoTo64Mod(Step) \div Step + ((TwoTo64Mod(Step) % Step) + n) \div Step) % 65536

\* mutant: the cut keeps the bits and forgets the sign
ToUint16(n) == n

ToInt16(n) == IF n < 32768 THEN n ELSE n - 65536

Multiplier(out, in) == IF out > in THEN SHRINK ELSE GROW

\* mutant: the whole variation is subtracted
NodeChangeWholeVariation(out, in) ==
    ToInt16(QuotientLow16((Distance(out, in) - Variation) * Multiplier(out, in)))

\* what AlterNodes asks the job manager to add to a job's nodes
NodeChange(out, in) ==
    ToInt16(QuotientLow16((Distance(out, in) - Variation \div 2) * Multiplier(out, in)))
=============================================================================
