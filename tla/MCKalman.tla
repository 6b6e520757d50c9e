------------------------------ MODULE MCKalman ------------------------------
(* The code and its equations are polynomials, of degree 2 in the variances and
   of degree 1 in every other element of x and p: if they agree for three and for
   two values of each, they agree for all.  The matrices therefore form a grid
   and need not be covariances.  Every result is a multiple of 1/16. *)
EXTENDS Kalman

MCUnit == 16
MCPrecisions == {4 * MCUnit}
MCDts == {MCUnit, 2 * MCUnit, 4 * MCUnit}
MCNoise == 9 * MCUnit
MCReadings == {MCUnit, 2 * MCUnit}

MCStates ==
  {[i \in I |-> 0]} \union {[i \in I |-> IF i = e THEN MCUnit ELSE 0] : e \in I}

MCMatrices ==
  {m \in [I -> [I -> {0, MCUnit, 3 * MCUnit}]] :
     \A i, j \in I : m[i][j] = 0 => i = j}

=============================================================================
