---------------------------- MODULE MCTokenBucket ----------------------------
(* Small instances of TokenBucket for TLC.                                 *)
EXTENDS TokenBucketWindow

R(r, w) == [read |-> r, write |-> w]
Budget(rate, capacity) == [rate |-> rate, capacity |-> capacity]
Setting(r, w) == [read |-> r, write |-> w]
Square(n) == Setting(Budget(n, n), Budget(n, n))

\* The last request fits only after the reconfiguration that MCSettings allows.
MCRequests == {R(2, 0), R(1, 0), R(2, 4)}
MCRequestsOneBudget == {R(1, 0), R(2, 0)}

MCInitial == Square(3)
MCInitialSmall == Square(2)
\* The read capacity shrinks under the feet of a sleeper, the write one grows.
MCSettings == {Setting(Budget(2, 2), Budget(3, 4))}
MCShrink == {Square(1)}
=============================================================================
