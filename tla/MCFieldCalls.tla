---------------------------- MODULE MCFieldCalls ----------------------------
EXTENDS FieldCalls

\* 0, 1, 37, p - 1, p, all ones, and a number with every limb different.
MCLoads ==
  LET ones == 0..54
  IN {{}, {0}, {0, 2, 5}, ones \ {0, 1, 4}, ones \ {1, 4}, ones,
      {0, 3, 4, 9, 13, 14, 20, 22, 29, 33, 37, 41, 47, 48, 54}}
=============================================================================
