---------------------------------- MODULE Sums ----------------------------------
(***************************************************************************)
(* The sum of the first numbers of a function on 1 .. n, as the samples of *)
(* the buffers of AudioStream.tla and the bytes of the messages of         *)
(* VncClient.tla add up.                                                   *)
(***************************************************************************)
EXTENDS Integers

Sum(f, n) ==
    LET S[i \in 0 .. n] == IF i = 0 THEN 0 ELSE S[i - 1] + f[i]
    IN  S[n]
=================================================================================
