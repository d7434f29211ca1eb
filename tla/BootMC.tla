------------------------------- MODULE BootMC -------------------------------
(* Values of Boot's constants.                                             *)
EXTENDS Boot

MCPalette  == {"off", "red", "green"}
MCCounters == {-1, 0, 9, 10, 29, 30, 93, 99, 100, 150}
MCCapacities == {50}
MCInputs   == {15}
MCBootLeds == {"off", "green"}

(* The buttons are lit by the same code as the keyboard.                   *)
MCBacklights == {"backlight", "keyboard"}

(* All short environments of up to three strings, and the longest init     *)
(* may be given: 34 short strings, and ones the buffer cuts off.           *)
MCEnvironments ==
  UNION {[1 .. n -> 2 .. 6] : n \in 0 .. 3}
    \cup {[i \in 1 .. 34 |-> 2], [i \in 1 .. 34 |-> 15], [i \in 1 .. 34 |-> 17], <<600>>, <<300, 300>>,
          <<255, 256>>, <<511>>, <<510, 3>>}
=============================================================================
