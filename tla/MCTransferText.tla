--------------------------- MODULE MCTransferText ---------------------------
(* TransferText for TLC.                                                   *)
EXTENDS TransferText

(* TLC's own numbers end at 2^31: the int has 16 bits.                     *)
ShortInt == 65536

(* Empty, the largest byte with a blank inside, one more, a letter, and    *)
(* numbers that wrap around to 1 and to less than 0.                       *)
SmallFields ==
  {<<>>, <<2, Blank, 5, 5>>, <<2, 5, 6>>, <<Letter>>, <<6, 5, 5, 3, 7>>, <<4, 0, 0, 0, 0>>}

(* One field, the right number, one fewer and one more.                    *)
SomeCounts == {1, 5, 6, 7}

SomeHosts == {<<192, 168, 0, 10>>, <<10, 0, 99, 100>>}

(* The start of the counter, and just before it wraps.                     *)
SomePorts == {1024, 65534, 65535}

(* Around every change of the number of digits and commas.                 *)
SomeSizes == {0, 7, 10, 99, 105, 999, 1024, 9876, 12345, 123456, 1098765, 2345678,
              98765432, 123456789, 1055555555, 2147483647}
=============================================================================
