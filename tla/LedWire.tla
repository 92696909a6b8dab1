------------------------------ MODULE LedWire ------------------------------
(***************************************************************************)
(* The numbers that LEDServer.c and LEDConsoleOut.c exchange.  Both sides  *)
(* keep a 16-bit value as two bytes of a char buffer, most significant     *)
(* byte first, and rebuild it with shifts of the chars they read back.     *)
(* Whether char is signed is a property of the build (signed with gcc on   *)
(* x86, unsigned on ARM): every operator that reads a char back takes the  *)
(* CHAR_MAX of the build as its first argument.                            *)
(***************************************************************************)
EXTENDS Integers

\* UCHAR_MAX and USHRT_MAX.  The latter is also the row and the column of the address that
\* means every LED.
UCharMax == 255
UShortMax == 65535

Byte == 0..UCharMax
UShort == 0..UShortMax

\* INT_MAX, above which a product of two lengths is undefined.
IntMax == 2147483647

\* CHAR_MAX: of a build where char is signed, and of one where it is not.
SignedChar == 127
UnsignedChar == 255
CharMaxima == {SignedChar, UnsignedChar}

\* An integer stored in an unsigned short or in a uint16_t.
ToUShort(n) == n % 65536

\* The int that a byte of a char buffer promotes to.
CharValue(charMax, byte) == IF byte > charMax THEN byte - 256 ELSE byte

\* What "value >> 8" and "value" leave in a char.
HighByte(value) == value \div 256
LowByte(value) == value % 256

\* ((uint16_t)readBuffer[0] << 8) + (uint16_t)readBuffer[1]
DecodeUShort(charMax, high, low) ==
    ToUShort(256 * ToUShort(CharValue(charMax, high)) + ToUShort(CharValue(charMax, low)))

\* The one-dimensional address of an LED, as translateToOutput computes it.
LedAddress(row, column, numberOfColumns) == ToUShort(row * numberOfColumns + column)

\* The number of LEDs initLedGrid allocates and setLed accepts.
LedCount(rowLength, columnLength) == ToUShort(rowLength * columnLength)

\* The values that survive the two bytes: the sign of the low byte is the only thing lost.
Survives(charMax, value) == LowByte(value) <= charMax
=============================================================================
