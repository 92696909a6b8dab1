-------------------------- MODULE MCLedAddressing --------------------------
(* Sets of grids for TLC: around the sign bit of a byte, and at the 16-bit limit. *)
EXTENDS LedAddressing

GridsOf(sizes, server, output) ==
    {[rows |-> s[1], columns |-> s[2], server |-> server, output |-> output] : s \in sizes}

\* The default grid, the strip of WS2812b_STM32F4Disc.c, every low byte below 128, 65535 LEDs.
WideSizes == {<<3, 10>>, <<2, 5>>, <<1, 1>>, WS2812bStrip, <<300, 1>>, <<13, 10>>, <<16, 16>>,
              <<127, 3>>, <<259, 126>>, <<1, 1023>>}
SmallSizes == {<<3, 10>>, <<2, 5>>, <<1, 1>>, <<12, 10>>, <<1, 127>>, <<127, 1>>, <<8, 16>>}

FaithfulGrids == GridsOf(WideSizes \cup {<<255, 257>>, <<1, 128>>, <<1, 65535>>, <<150, 200>>}, UnsignedChar, UnsignedChar)
                    \cup GridsOf(WideSizes \ {<<1, 1023>>}, SignedChar, UnsignedChar)
                    \cup GridsOf(SmallSizes, SignedChar, SignedChar)

\* Both programs built for x86, as the makefile's LEDParser and LEDSim are.
SignedGrids == GridsOf({<<3, 10>>, <<12, 10>>, <<13, 10>>, <<10, 15>>, <<1, 127>>, <<2, 100>>}, SignedChar, SignedChar)

\* Sizes that initLedGrid accepts, with more LEDs than an unsigned short counts.
HugeGrids == GridsOf({<<255, 257>>, <<256, 256>>, <<257, 256>>, <<300, 300>>}, UnsignedChar, UnsignedChar)

MCCoordinates == {0, 1, 2, 4, 5, 9, 10, 11, 12, 14, 15, 16, 63, 100, 125, 126, 127, 128, 129, 199,
                  254, 255, 256, 258, 259, 298, 299, 300, 1022, 1023, 65534, 65535}
=============================================================================
