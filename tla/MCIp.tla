-------------------------------- MODULE MCIp --------------------------------
(* A small instance of Ip for TLC: numbers at the limits of every test, with *)
(* leading zeros, too large for a byte, and too large for an int.            *)
EXTENDS Ip

SmallFields ==
  {<<>>, <<0>>, <<1>>, <<0, 1>>, <<1, 2, 7>>, <<2, 2, 3>>, <<2, 2, 4>>,
   <<2, 5, 5>>, <<2, 5, 6>>, <<2, 0, 4, 9>>}

=============================================================================
