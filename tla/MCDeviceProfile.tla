-------------------------- MODULE MCDeviceProfile --------------------------
(* DeviceProfile with a byte of two bits and a word of eight.              *)
EXTENDS DeviceProfile

(* A byte, a number that is none, and one that is one in its low bits. *)
MCBrightnesses == {Absent, Digits(2), Number(Base), Number(Word + 3), Text}

(* A value of more than a word whose four bytes all differ, the sign bit,  *)
(* below zero, and beyond what bit.c takes exactly.                        *)
MCTimes ==
  {Absent, Digits(Word + 27), Number(Word \div 2), Number(-1), Number(2 * Word + 27), Other}

(* As 64-bit builds have it: the low bits, and half as many of a sum that  *)
(* is twice as large.                                                      *)
MCTruncated(n) == BRET(n % Word)
MCRounded(n) == (n \div 2) % Word

(* Whole statuses, and broken ones: too short, too long, and with holes at *)
(* each end of the time.                                                   *)
MCStatuses ==
  { <<1, 1, 2, 0, 1, 2, 3>>, <<2, 0, 3, 3, 2, 1, 0>>, << >>,
    <<NotHex, 2, 0, 3, 3, 3, 3, 0>>, <<0, 1, 2, 0, 0, 0>>,
    <<1, 1, NotHex, 0, 0, 0, 1>>, <<1, 1, 2, NotHex, 0, 0, 1>>,
    <<1, 1, 2, 0, 0, 0, NotHex, 1>> }
=============================================================================
